---- MODULE Spec2Model ----
(***************************************************************************)
(* Model of simulator_full.py: the demand-paging MemoryManager, the        *)
(* FileSimulator lock table, the three schedulers and the tick loop of     *)
(* Simulator.run.                                                          *)
(*                                                                         *)
(* Python dicts are insertion ordered, and the code depends on that order  *)
(* (min() over last_used.items(), the to_release scan of locks), so every  *)
(* dict is a sequence of <<key, value>> pairs in insertion order.          *)
(***************************************************************************)
EXTENDS Integers, Sequences, FiniteSets, TLC

VARIABLES
    mem,              \* Simulator.mem : the MemoryManager object
    fs,               \* Simulator.fs : the FileSimulator object
    scheduler,        \* Simulator.scheduler : the scheduler object
    procs,            \* Simulator.all_processes : pid -> Process fields
    ready_list,       \* Simulator.ready_list : pids in add_process order
    time,             \* Simulator.time
    pending,          \* local deque `pending` of run()
    running_proc,     \* local `running_proc` of run() (None when empty)
    rr_quantum_left,  \* local `rr_quantum_left` of run()
    finished,         \* Simulator.finished : pids in completion order
    metrics,          \* Simulator.metrics
    max_ticks,        \* argument of run()
    quantum,          \* Simulator.quantum
    pc,               \* position of the caller: which code runs next
    exc,              \* exception propagating out of the last call
    rng,              \* the source behind random.randrange
    last_op,          \* the last call or loop iteration, with its result
    load_order,       \* history: the resident (pid, page) keys, oldest load first
    slice             \* history: the last stay of a process in the active slot

vars == <<mem, fs, scheduler, procs, ready_list, time, pending, running_proc,
          rr_quantum_left, finished, metrics, max_ticks, quantum, pc, exc,
          rng, last_op, load_order, slice>>

-----------------------------------------------------------------------------
(* Bounds of the model *)

MaxFrames == 2       \* largest num_frames tried
MaxPages == 2        \* largest Process.pages tried
MaxMemTick == 2      \* largest tick passed to access_page directly
MaxFsTick == 1       \* largest tick passed to request directly
MaxFsDur == 1        \* longest duration passed to request directly
MaxApiFaults == 4    \* cap on the page faults of one API-level run
MaxLog == 3          \* cap on FileSimulator.log in an API-level run
MaxProcs == 2        \* largest number of processes in a workload
MaxArrival == 3      \* latest arrival tick
MaxCpu == 2          \* largest total_cpu
MaxPriority == 2     \* largest priority value
MaxDur == 2          \* longest I/O duration
MaxQuantum == 2      \* largest Round-Robin quantum
MinTicks == 2        \* the short max_ticks budget of a run
MaxTicks == 8        \* the long max_ticks budget of a run
MaxConflicts == 3    \* refused requests up to which a run is followed
FreeTicks == 4       \* ticks during which a fixed page source is still free
MaxIoTime == 4       \* latest tick of an I/O event in the workloads with distinct event times

(* Program constants *)
DefaultQuantum == 2  \* Simulator.__init__(quantum=2)
DefaultMaxTicks == 1000  \* Simulator.run(max_ticks=1000)
DemoQuantum == 2     \* run_demo: RoundRobinScheduler(quantum=2)
DemoFrames == 3      \* run_demo: MemoryManager(num_frames=3, ...)
DemoMaxTicks == 200  \* run_demo: sim.run(max_ticks=200)

-----------------------------------------------------------------------------
(* Python values *)

None == 0            \* the pid-valued None (pids start at 1)
NoTime == -1         \* the None of Optional[int] start_time / finish_time

Min2(a, b) == IF a <= b THEN a ELSE b
Max2(a, b) == IF a >= b THEN a ELSE b

(* dict, as a sequence of <<key, value>> in insertion order *)
DictHas(d, k) == \E i \in 1..Len(d) : d[i][1] = k
DictGet(d, k) == d[CHOOSE i \in 1..Len(d) : d[i][1] = k][2]
DictGetOr(d, k, dflt) == IF DictHas(d, k) THEN DictGet(d, k) ELSE dflt
DictSet(d, k, v) ==
    IF DictHas(d, k)
    THEN [i \in 1..Len(d) |-> IF d[i][1] = k THEN <<k, v>> ELSE d[i]]
    ELSE Append(d, <<k, v>>)
DictPop(d, k) == SelectSeq(d, LAMBDA e : e[1] # k)
DictKeys(d) == {d[i][1] : i \in 1..Len(d)}

(* deque.remove(x): drops the first occurrence *)
RemoveFirst(q, x) ==
    IF \E i \in 1..Len(q) : q[i] = x
    THEN LET i == CHOOSE j \in 1..Len(q) :
                      q[j] = x /\ \A l \in 1..(j-1) : q[l] # x
         IN SubSeq(q, 1, i-1) \o SubSeq(q, i+1, Len(q))
    ELSE q

-----------------------------------------------------------------------------
(* MemoryManager *)

(* str.upper() on the policy names the model passes in *)
Upper(s) ==
    CASE s = "fifo" -> "FIFO"
      [] s = "lru" -> "LRU"
      [] s = "clock" -> "CLOCK"
      [] OTHER -> s

MemoryManager(n, replacement) ==
    [num_frames |-> n,
     replacement |-> Upper(replacement),
     frames |-> <<>>,
     frame_map |-> <<>>,
     fifo_queue |-> <<>>,
     time |-> 0,
     last_used |-> <<>>,
     page_faults |-> <<>>]

MinLastUsed_LastTie(items) ==
    LET i == CHOOSE j \in 1..Len(items) :
                 /\ \A l \in 1..Len(items) : items[j][2] <= items[l][2]
                 /\ \A l \in (j+1)..Len(items) : items[l][2] > items[j][2]
    IN items[i][1]

(* min(self.last_used.items(), key=lambda kv: kv[1])[0]: the first item, in *)
(* dict order, whose value is the smallest                                  *)
MinLastUsed(items) ==
    LET i == CHOOSE j \in 1..Len(items) :
                 /\ \A l \in 1..Len(items) : items[j][2] <= items[l][2]
                 /\ \A l \in 1..(j-1) : items[l][2] > items[j][2]
    IN items[i][1]

ChooseVictim_ByLastUse(m) ==
    IF m.last_used = <<>>
    THEN [exc |-> "ValueError", victim |-> <<>>, fifo_queue |-> m.fifo_queue]
    ELSE LET v == MinLastUsed(m.last_used)
         IN [exc |-> "none", victim |-> v,
             fifo_queue |-> RemoveFirst(m.fifo_queue, v)]

(* the policy branch of load_page: the victim, the queue without it, or the *)
(* exception raised by popleft() / min() on an empty container              *)
ChooseVictim(m) ==
    IF m.replacement = "LRU"
    THEN IF m.last_used = <<>>
         THEN [exc |-> "ValueError", victim |-> <<>>, fifo_queue |-> m.fifo_queue]
         ELSE LET v == MinLastUsed(m.last_used)
              IN [exc |-> "none", victim |-> v,
                  fifo_queue |-> RemoveFirst(m.fifo_queue, v)]
    ELSE IF m.fifo_queue = <<>>
         THEN [exc |-> "IndexError", victim |-> <<>>, fifo_queue |-> m.fifo_queue]
         ELSE [exc |-> "none", victim |-> Head(m.fifo_queue),
               fifo_queue |-> Tail(m.fifo_queue)]

(* the loop over frames: the first slot whose frame id is fid is rewritten *)
ReplaceFrame(frames, fid, pid, page) ==
    IF \E i \in 1..Len(frames) : frames[i][1] = fid
    THEN LET i == CHOOSE j \in 1..Len(frames) :
                      frames[j][1] = fid /\ \A l \in 1..(j-1) : frames[l][1] # fid
         IN [frames EXCEPT ![i] = <<fid, pid, page>>]
    ELSE frames

LoadPage_NoCapacityCheck(m, pid, page, tick) ==
    LET key == <<pid, page>>
        frame_id == Len(m.frames)
    IN [exc |-> "none",
        mem |-> [m EXCEPT !.frames = Append(@, <<frame_id, pid, page>>),
                          !.frame_map = DictSet(@, key, frame_id),
                          !.fifo_queue = Append(@, key),
                          !.last_used = DictSet(@, key, tick)]]

LoadPage(m, pid, page, tick) ==
    LET key == <<pid, page>> IN
    IF Len(m.frames) < m.num_frames
    THEN LET frame_id == Len(m.frames)
         IN [exc |-> "none",
             mem |-> [m EXCEPT !.frames = Append(@, <<frame_id, pid, page>>),
                               !.frame_map = DictSet(@, key, frame_id),
                               !.fifo_queue = Append(@, key),
                               !.last_used = DictSet(@, key, tick)]]
    ELSE LET c == ChooseVictim(m) IN
         IF c.exc # "none"
         THEN [exc |-> c.exc, mem |-> m]
         ELSE LET victim_frame == DictGet(m.frame_map, c.victim)
              IN [exc |-> "none",
                  mem |-> [m EXCEPT
                     !.frames = ReplaceFrame(@, victim_frame, pid, page),
                     !.frame_map = DictSet(DictPop(@, c.victim), key, victim_frame),
                     !.fifo_queue = Append(c.fifo_queue, key),
                     !.last_used = DictSet(DictPop(@, c.victim), key, tick)]]

AccessPage_HitRequeues(m, pid, page, tick) ==
    LET key == <<pid, page>>
        m1 == [m EXCEPT !.time = tick]
    IN IF DictHas(m1.frame_map, key)
       THEN [present |-> TRUE, exc |-> "none",
             mem |-> [m1 EXCEPT !.last_used = DictSet(@, key, tick),
                                !.fifo_queue = Append(RemoveFirst(@, key), key)]]
       ELSE LET m2 == [m1 EXCEPT !.page_faults =
                                   DictSet(@, pid, DictGetOr(@, pid, 0) + 1)]
                r == LoadPage(m2, pid, page, tick)
            IN [present |-> FALSE, exc |-> r.exc, mem |-> r.mem]

AccessPage(m, pid, page, tick) ==
    LET key == <<pid, page>>
        m1 == [m EXCEPT !.time = tick]
    IN IF DictHas(m1.frame_map, key)
       THEN [present |-> TRUE, exc |-> "none",
             mem |-> [m1 EXCEPT !.last_used = DictSet(@, key, tick)]]
       ELSE LET m2 == [m1 EXCEPT !.page_faults =
                                   DictSet(@, pid, DictGetOr(@, pid, 0) + 1)]
                r == LoadPage(m2, pid, page, tick)
            IN [present |-> FALSE, exc |-> r.exc, mem |-> r.mem]

-----------------------------------------------------------------------------
(* FileSimulator *)

FileSimulator == [locks |-> <<>>, waiting |-> <<>>, conflicts |-> 0, log |-> <<>>]

(* self.waiting[fname] on a defaultdict(deque): the lookup creates the key *)
WaitingTouch(w, fname) == IF DictHas(w, fname) THEN w ELSE Append(w, <<fname, <<>>>>)

Request_NoConflictCount(f, pid, filename, op, tick, duration) ==
    IF ~DictHas(f.locks, filename)
    THEN [granted |-> TRUE, release_tick |-> tick + duration,
          fs |-> [f EXCEPT
                    !.locks = DictSet(@, filename, <<pid, tick + duration>>),
                    !.log = Append(@, <<tick, pid, filename, op, "granted">>)]]
    ELSE LET w == WaitingTouch(f.waiting, filename)
         IN [granted |-> FALSE, release_tick |-> NoTime,
             fs |-> [f EXCEPT
                       !.waiting = DictSet(w, filename,
                                     Append(DictGet(w, filename), <<pid, op, duration>>)),
                       !.log = Append(@, <<tick, pid, filename, op, "queued">>)]]

Request(f, pid, filename, op, tick, duration) ==
    IF ~DictHas(f.locks, filename)
    THEN [granted |-> TRUE, release_tick |-> tick + duration,
          fs |-> [f EXCEPT
                    !.locks = DictSet(@, filename, <<pid, tick + duration>>),
                    !.log = Append(@, <<tick, pid, filename, op, "granted">>)]]
    ELSE LET w == WaitingTouch(f.waiting, filename)
         IN [granted |-> FALSE, release_tick |-> NoTime,
             fs |-> [f EXCEPT
                       !.waiting = DictSet(w, filename,
                                     Append(DictGet(w, filename), <<pid, op, duration>>)),
                       !.conflicts = @ + 1,
                       !.log = Append(@, <<tick, pid, filename, op, "queued">>)]]

(* to_release: the locked files whose release tick is <= tick, in dict order *)
ToRelease(locks, tick) ==
    LET exp == SelectSeq(locks, LAMBDA e : e[2][2] <= tick)
    IN [i \in 1..Len(exp) |-> exp[i][1]]

(* one pass of the for loop over to_release *)
ReleaseOne(f, fname, tick) ==
    LET locks1 == DictPop(f.locks, fname)
        w == WaitingTouch(f.waiting, fname)
        q == DictGet(w, fname)
    IN IF q # <<>>
       THEN LET pid == Head(q)[1]
                op == Head(q)[2]
                duration == Head(q)[3]
            IN [f EXCEPT !.locks = DictSet(locks1, fname, <<pid, tick + duration>>),
                         !.waiting = DictSet(w, fname, Tail(q)),
                         !.log = Append(@, <<tick, pid, fname, op, "granted_from_queue">>)]
       ELSE [f EXCEPT !.locks = locks1, !.waiting = w]

RECURSIVE ReleaseEach(_, _, _)
ReleaseEach(f, to_release, tick) ==
    IF to_release = <<>>
    THEN f
    ELSE ReleaseEach(ReleaseOne(f, Head(to_release), tick), Tail(to_release), tick)

ReleaseExpired_Never(f, tick) == f

ReleaseExpired(f, tick) == ReleaseEach(f, ToRelease(f.locks, tick), tick)

-----------------------------------------------------------------------------
(* Schedulers.  A heap entry is (key, arrival, pid, proc); pids are unique, *)
(* so the tuple comparison of heapq is decided by the first three fields    *)
(* and the model keeps <<key, arrival, pid>>.                               *)

TupleLess(a, b) ==
    \/ a[1] < b[1]
    \/ a[1] = b[1] /\ a[2] < b[2]
    \/ a[1] = b[1] /\ a[2] = b[2] /\ a[3] < b[3]

(* heapq._siftdown, positions counted from 0 as in the library *)
RECURSIVE SiftDownLoop(_, _, _, _)
SiftDownLoop(heap, startpos, pos, newitem) ==
    IF pos > startpos
    THEN LET parentpos == (pos - 1) \div 2
             parent == heap[parentpos + 1]
         IN IF TupleLess(newitem, parent)
            THEN SiftDownLoop([heap EXCEPT ![pos + 1] = parent],
                              startpos, parentpos, newitem)
            ELSE [heap EXCEPT ![pos + 1] = newitem]
    ELSE [heap EXCEPT ![pos + 1] = newitem]

SiftDown(heap, startpos, pos) == SiftDownLoop(heap, startpos, pos, heap[pos + 1])

(* heapq._siftup *)
RECURSIVE SiftUpLoop(_, _, _, _)
SiftUpLoop(heap, startpos, pos, newitem) ==
    LET endpos == Len(heap)
        childpos == 2 * pos + 1
    IN IF childpos < endpos
       THEN LET rightpos == childpos + 1
                c == IF rightpos < endpos
                        /\ ~TupleLess(heap[childpos + 1], heap[rightpos + 1])
                     THEN rightpos ELSE childpos
            IN SiftUpLoop([heap EXCEPT ![pos + 1] = heap[c + 1]],
                          startpos, c, newitem)
       ELSE SiftDown([heap EXCEPT ![pos + 1] = newitem], startpos, pos)

SiftUp(heap, pos) == SiftUpLoop(heap, pos, pos, heap[pos + 1])

HeapPush(heap, item) == SiftDown(Append(heap, item), 0, Len(heap))

HeapPop(heap) ==
    LET lastelt == heap[Len(heap)]
        rest == SubSeq(heap, 1, Len(heap) - 1)
    IN IF rest # <<>>
       THEN [item |-> rest[1], heap |-> SiftUp([rest EXCEPT ![1] = lastelt], 0)]
       ELSE [item |-> lastelt, heap |-> rest]

RoundRobinScheduler(q) ==
    [kind |-> "RR", quantum |-> q, higher_value |-> FALSE, queue |-> <<>>, heap |-> <<>>]
SJFScheduler ==
    [kind |-> "SJF", quantum |-> 0, higher_value |-> FALSE, queue |-> <<>>, heap |-> <<>>]
PriorityScheduler(higher) ==
    [kind |-> "PRIO", quantum |-> 0, higher_value |-> higher, queue |-> <<>>, heap |-> <<>>]

HeapKey_Raw(s, p) == IF s.kind = "SJF" THEN p.remaining ELSE p.priority

(* the first field of the heap entry pushed by add_process *)
HeapKey(s, p) ==
    IF s.kind = "SJF" THEN p.remaining
    ELSE IF s.higher_value THEN 0 - p.priority ELSE p.priority

SchedAdd(s, p) ==
    IF s.kind = "RR"
    THEN [s EXCEPT !.queue = Append(@, p.pid)]
    ELSE [s EXCEPT !.heap = HeapPush(@, <<HeapKey(s, p), p.arrival, p.pid>>)]

SchedTick(s) ==
    IF s.kind = "RR"
    THEN IF s.queue = <<>>
         THEN [proc |-> None, scheduler |-> s]
         ELSE [proc |-> Head(s.queue), scheduler |-> [s EXCEPT !.queue = Tail(@)]]
    ELSE IF s.heap = <<>>
         THEN [proc |-> None, scheduler |-> s]
         ELSE LET r == HeapPop(s.heap)
              IN [proc |-> r.item[3], scheduler |-> [s EXCEPT !.heap = r.heap]]

HasReady(s) == IF s.kind = "RR" THEN Len(s.queue) > 0 ELSE Len(s.heap) > 0

-----------------------------------------------------------------------------
(* Process and IOOperation *)

IOOperation(t, filename, op, duration) ==
    [time |-> t, filename |-> filename, op |-> op, duration |-> duration]

(* the dataclass after __post_init__ *)
Process(pid, arrival, total_cpu, priority, pages, io_ops) ==
    [pid |-> pid, arrival |-> arrival, total_cpu |-> total_cpu,
     priority |-> priority, pages |-> pages, io_ops |-> io_ops,
     remaining |-> total_cpu, start_time |-> NoTime, finish_time |-> NoTime,
     waiting_time |-> 0]

-----------------------------------------------------------------------------
(* Simulator.run *)

(* list.sort(key=arrival) is stable: p goes after every entry whose arrival *)
(* is not larger                                                            *)
InsertByArrival(sorted, pid, P) ==
    LET n == Cardinality({i \in 1..Len(sorted) : P[sorted[i]].arrival <= P[pid].arrival})
    IN SubSeq(sorted, 1, n) \o <<pid>> \o SubSeq(sorted, n + 1, Len(sorted))

RECURSIVE SortByArrival(_, _)
SortByArrival(list, P) ==
    IF list = <<>>
    THEN <<>>
    ELSE InsertByArrival(SortByArrival(SubSeq(list, 1, Len(list) - 1), P),
                         list[Len(list)], P)

(* the condition of the while loop *)
LoopGuard ==
    /\ time < max_ticks
    /\ (pending # <<>> \/ HasReady(scheduler) \/ running_proc # None)

Arrived_Always(p, t) == TRUE

(* pending[0].arrival <= self.time *)
Arrived(p, t) == p.arrival <= t

(* the inner while loop: bring arrivals into the scheduler *)
RECURSIVE Admit(_, _, _, _)
Admit(pend, s, P, t) ==
    IF pend # <<>> /\ Arrived(P[Head(pend)], t)
    THEN Admit(Tail(pend), SchedAdd(s, P[Head(pend)]), P, t)
    ELSE [pending |-> pend, scheduler |-> s]

(* select process to run *)
Dispatch(s, running, P, t, q_left, q) ==
    IF running = None
    THEN LET r == SchedTick(s) IN
         IF r.proc # None
         THEN [proc |-> r.proc, running_proc |-> r.proc, scheduler |-> r.scheduler,
               procs |-> IF P[r.proc].start_time = NoTime
                         THEN [P EXCEPT ![r.proc].start_time = t]
                         ELSE P,
               rr_quantum_left |-> q]
         ELSE [proc |-> None, running_proc |-> None, scheduler |-> r.scheduler,
               procs |-> P, rr_quantum_left |-> q_left]
    ELSE [proc |-> running, running_proc |-> running, scheduler |-> s,
          procs |-> P, rr_quantum_left |-> q_left]

(* io_now: the I/O events of the process scheduled at this tick *)
IoNow(p, t) == SelectSeq(p.io_ops, LAMBDA io : io.time = t)

(* the for loop over io_now: st carries fs, the clock and the remaining CPU *)
(* of the process; the loop breaks at the first denied request              *)
RECURSIVE IoRequests(_, _, _)
IoRequests(io_now, pid, st) ==
    IF io_now = <<>>
    THEN st
    ELSE LET io == Head(io_now)
             r == Request(st.fs, pid, io.filename, io.op, st.time, io.duration)
         IN IF ~r.granted
            THEN [st EXCEPT !.fs = r.fs, !.denied = TRUE]
            ELSE IoRequests(Tail(io_now), pid,
                            [st EXCEPT !.fs = r.fs,
                                       !.remaining = @ - io.duration,
                                       !.time = @ + io.duration,
                                       !.granted = @ + 1])

FaultMetrics_Busy(m) == [m EXCEPT !.cpu_busy_ticks = @ + 1]

(* accounting of a page-fault tick *)
FaultMetrics(m) == [m EXCEPT !.total_ticks = @ + 1]

(* accounting of an idle tick *)
IdleMetrics(m) == [m EXCEPT !.total_ticks = @ + 1]

(* accounting of a CPU tick *)
CpuMetrics(m) == [m EXCEPT !.cpu_busy_ticks = @ + 1, !.total_ticks = @ + 1]

AfterCpuTick_OffByOne(s, P, pid, t, q_left, fin) ==
    IF P[pid].remaining <= 1
    THEN [procs |-> [P EXCEPT ![pid].finish_time = t],
          finished |-> Append(fin, pid),
          running_proc |-> None, scheduler |-> s, rr_quantum_left |-> q_left]
    ELSE IF s.kind = "RR" /\ q_left - 1 <= 0
         THEN [procs |-> P, finished |-> fin, running_proc |-> None,
               scheduler |-> SchedAdd(s, P[pid]), rr_quantum_left |-> q_left - 1]
         ELSE [procs |-> P, finished |-> fin, running_proc |-> pid,
               scheduler |-> s, rr_quantum_left |-> q_left - 1]

AfterCpuTick_NoRequeue(s, P, pid, t, q_left, fin) ==
    IF P[pid].remaining <= 0
    THEN [procs |-> [P EXCEPT ![pid].finish_time = t],
          finished |-> Append(fin, pid),
          running_proc |-> None, scheduler |-> s, rr_quantum_left |-> q_left]
    ELSE IF s.kind = "RR" /\ q_left - 1 <= 0
         THEN [procs |-> P, finished |-> fin, running_proc |-> None,
               scheduler |-> s, rr_quantum_left |-> q_left - 1]
         ELSE [procs |-> P, finished |-> fin, running_proc |-> pid,
               scheduler |-> s, rr_quantum_left |-> q_left - 1]

AfterCpuTick_LateRequeue(s, P, pid, t, q_left, fin) ==
    IF P[pid].remaining <= 0
    THEN [procs |-> [P EXCEPT ![pid].finish_time = t],
          finished |-> Append(fin, pid),
          running_proc |-> None, scheduler |-> s, rr_quantum_left |-> q_left]
    ELSE IF s.kind = "RR" /\ q_left - 1 < 0
         THEN [procs |-> P, finished |-> fin, running_proc |-> None,
               scheduler |-> SchedAdd(s, P[pid]), rr_quantum_left |-> q_left - 1]
         ELSE [procs |-> P, finished |-> fin, running_proc |-> pid,
               scheduler |-> s, rr_quantum_left |-> q_left - 1]

(* the finish check and the Round-Robin quantum handling after a CPU tick *)
AfterCpuTick(s, P, pid, t, q_left, fin) ==
    IF P[pid].remaining <= 0
    THEN [procs |-> [P EXCEPT ![pid].finish_time = t],
          finished |-> Append(fin, pid),
          running_proc |-> None, scheduler |-> s, rr_quantum_left |-> q_left]
    ELSE IF s.kind = "RR" /\ q_left - 1 <= 0
         THEN [procs |-> P, finished |-> fin, running_proc |-> None,
               scheduler |-> SchedAdd(s, P[pid]), rr_quantum_left |-> q_left - 1]
         ELSE [procs |-> P, finished |-> fin, running_proc |-> pid,
               scheduler |-> s, rr_quantum_left |-> q_left - 1]

(* random.randrange(0, proc.pages).  The source "any" may return every page *)
(* of the range at every call.  The other sources do so during the first    *)
(* FreeTicks ticks and then follow a fixed rule: the first page, the last   *)
(* page, the pages in turn, or a page that is not resident when there is    *)
(* one.                                                                     *)
PageChoices(r, p, m, t) ==
    LET range == 0..(p.pages - 1)
        absent == {g \in range : ~DictHas(m.frame_map, <<p.pid, g>>)}
    IN IF r = "any" \/ t < FreeTicks THEN range
       ELSE IF r = "first" THEN {0}
       ELSE IF r = "last" THEN {p.pages - 1}
       ELSE IF r = "cycle" THEN {t % p.pages}
       ELSE IF absent # {} THEN {CHOOSE g \in absent : \A h \in absent : g <= h}
       ELSE {0}

PageSources == {"first", "last", "cycle", "miss"}

OpRecord(op, pid, arg, ret) == [op |-> op, pid |-> pid, arg |-> arg, ret |-> ret]

(* compute_metrics *)
Turnaround(p) == IF p.finish_time # NoTime THEN p.finish_time - p.arrival ELSE 0

WaitingOf(p) ==
    LET waiting == Turnaround(p) - p.total_cpu
    IN IF waiting >= 0 THEN waiting ELSE 0

RECURSIVE TotalWait(_, _)
TotalWait(list, P) ==
    IF list = <<>> THEN 0 ELSE WaitingOf(P[Head(list)]) + TotalWait(Tail(list), P)

RECURSIVE TotalTurnaround(_, _)
TotalTurnaround(list, P) ==
    IF list = <<>> THEN 0 ELSE Turnaround(P[Head(list)]) + TotalTurnaround(Tail(list), P)

MetricsProcs(P, fin) ==
    [pid \in DOMAIN P |->
        IF \E i \in 1..Len(fin) : fin[i] = pid
        THEN [P[pid] EXCEPT !.waiting_time = WaitingOf(P[pid])]
        ELSE P[pid]]

(* the returned dict; the two averages are total / finished_count (0 when *)
(* nothing finished) and are kept as their numerators                     *)
ComputeMetrics(P, fin, m, f, mm, t) ==
    [finished_count |-> Len(fin),
     total_wait |-> TotalWait(fin, P),
     total_turnaround |-> TotalTurnaround(fin, P),
     cpu_busy_ticks |-> m.cpu_busy_ticks,
     total_ticks |-> Max2(1, m.total_ticks),
     page_faults |-> mm.page_faults,
     mem_frames |-> mm.frames,
     file_conflicts |-> f.conflicts,
     time_elapsed |-> t]

-----------------------------------------------------------------------------
(* History kept beside the program state; no operation of the program reads *)
(* it.                                                                      *)

(* the keys still resident after an access, in the order they were loaded, *)
(* followed by the key the access loaded                                   *)
LoadOrderAfter(order, m1, key) ==
    LET kept == SelectSeq(order, LAMBDA k : DictHas(m1.frame_map, k))
    IN IF DictHas(m1.frame_map, key) /\ \A i \in 1..Len(kept) : kept[i] # key
       THEN Append(kept, key)
       ELSE kept

NoSlice == [pid |-> None, since |-> 0, until |-> 0, cpu |-> 0]

(* the stay of pid in the active slot: the clock at its dispatch, the clock *)
(* at the end of its last iteration, the CPU ticks executed in between      *)
SliceAfter(sl, dispatched, pid, t, t1, cpu_ticks) ==
    LET base == IF dispatched
                THEN [pid |-> pid, since |-> t, until |-> t, cpu |-> 0]
                ELSE sl
    IN [base EXCEPT !.until = t1, !.cpu = @ + cpu_ticks]

-----------------------------------------------------------------------------
(* Actions of a run *)

(* the two lines before the loop: sort ready_list in place, fill pending *)
RunStart ==
    /\ pc = "run"
    /\ ready_list' = SortByArrival(ready_list, procs)
    /\ pending' = ready_list'
    /\ running_proc' = None
    /\ rr_quantum_left' = quantum
    /\ pc' = "loop"
    /\ last_op' = OpRecord("run", None, <<max_ticks>>, <<>>)
    /\ UNCHANGED <<mem, fs, scheduler, procs, time, finished, metrics,
                   max_ticks, quantum, exc, rng, load_order, slice>>

(* an iteration with nothing to dispatch: the idle tick *)
IdleTick(adm, fs1, d) ==
    /\ time' = time + 1
    /\ metrics' = IdleMetrics(metrics)
    /\ pending' = adm.pending
    /\ scheduler' = d.scheduler
    /\ fs' = fs1
    /\ procs' = d.procs
    /\ running_proc' = d.running_proc
    /\ rr_quantum_left' = d.rr_quantum_left
    /\ last_op' = OpRecord("idle", None, <<time>>, <<>>)
    /\ UNCHANGED <<mem, finished, pc, exc, ready_list, max_ticks, quantum, rng,
                   load_order, slice>>

(* an iteration with a process dispatched, accessing `page` *)
BusyTick(adm, fs1, d, page) ==
    LET pid == d.proc
        acc == AccessPage(mem, pid, page, time)
    IN
    /\ mem' = acc.mem
    /\ load_order' = LoadOrderAfter(load_order, acc.mem, <<pid, page>>)
    /\ pending' = adm.pending
    /\ IF acc.exc # "none"
       THEN \* the exception leaves run()
            /\ exc' = acc.exc
            /\ pc' = "raised"
            /\ scheduler' = d.scheduler
            /\ fs' = fs1
            /\ procs' = d.procs
            /\ running_proc' = d.running_proc
            /\ rr_quantum_left' = d.rr_quantum_left
            /\ last_op' = OpRecord("raise", pid, <<time, page>>, <<>>)
            /\ UNCHANGED <<time, metrics, finished>>
       ELSE IF ~acc.present
       THEN \* page fault: the tick is consumed, no CPU progress
            /\ time' = time + 1
            /\ metrics' = FaultMetrics(metrics)
            /\ scheduler' = d.scheduler
            /\ fs' = fs1
            /\ procs' = d.procs
            /\ running_proc' = d.running_proc
            /\ rr_quantum_left' = d.rr_quantum_left
            /\ last_op' = OpRecord("fault", pid, <<time, page>>, <<>>)
            /\ UNCHANGED <<finished, pc, exc>>
       ELSE LET io == IoRequests(IoNow(d.procs[pid], time), pid,
                        [fs |-> fs1, time |-> time,
                         remaining |-> d.procs[pid].remaining,
                         denied |-> FALSE, granted |-> 0])
            IN IF io.denied
               THEN \* blocked: back to the scheduler, no CPU tick
                    \* (the model follows a run up to MaxConflicts refusals)
                    LET P1 == [d.procs EXCEPT ![pid].remaining = io.remaining,
                                              ![pid].waiting_time = @ + 1]
                    IN /\ io.fs.conflicts <= MaxConflicts
                       /\ fs' = io.fs
                       /\ time' = io.time
                       /\ procs' = P1
                       /\ scheduler' = SchedAdd(d.scheduler, P1[pid])
                       /\ running_proc' = None
                       /\ rr_quantum_left' = d.rr_quantum_left
                       /\ last_op' = OpRecord("denied", pid, <<time, page>>,
                                              <<io.granted>>)
                       /\ UNCHANGED <<metrics, finished, pc, exc>>
               ELSE \* one tick of CPU, then finish check and quantum
                    LET P1 == [d.procs EXCEPT ![pid].remaining = io.remaining - 1]
                        a == AfterCpuTick(d.scheduler, P1, pid, io.time + 1,
                                          d.rr_quantum_left, finished)
                    IN /\ fs' = io.fs
                       /\ time' = io.time + 1
                       /\ metrics' = CpuMetrics(metrics)
                       /\ procs' = a.procs
                       /\ finished' = a.finished
                       /\ scheduler' = a.scheduler
                       /\ running_proc' = a.running_proc
                       /\ rr_quantum_left' = a.rr_quantum_left
                       /\ last_op' = OpRecord("cpu", pid, <<time, page>>,
                                              <<io.granted>>)
                       /\ UNCHANGED <<pc, exc>>
    /\ slice' = SliceAfter(slice, running_proc = None, pid, time, time',
                           IF last_op'.op = "cpu" THEN 1 ELSE 0)
    /\ UNCHANGED <<ready_list, max_ticks, quantum, rng>>

(* one iteration of the while loop *)
LoopIteration ==
    /\ pc = "loop"
    /\ LoopGuard
    /\ LET adm == Admit(pending, scheduler, procs, time)
           fs1 == ReleaseExpired(fs, time)
           d == Dispatch(adm.scheduler, running_proc, procs, time,
                         rr_quantum_left, quantum)
       IN IF d.proc = None
          THEN IdleTick(adm, fs1, d)
          ELSE \E page \in PageChoices(rng, procs[d.proc], mem, time) :
                  BusyTick(adm, fs1, d, page)

(* the loop condition fails: compute_metrics and return *)
LoopExit ==
    /\ pc = "loop"
    /\ ~LoopGuard
    /\ procs' = MetricsProcs(procs, finished)
    /\ last_op' = OpRecord("return", None, <<>>,
                           ComputeMetrics(procs, finished, metrics, fs, mem, time))
    /\ pc' = "done"
    /\ UNCHANGED <<mem, fs, scheduler, ready_list, time, pending, running_proc,
                   rr_quantum_left, finished, metrics, max_ticks, quantum, exc,
                   rng, load_order, slice>>

Next == RunStart \/ LoopIteration \/ LoopExit

-----------------------------------------------------------------------------
(* Workloads of the general specification *)

Files == {"fileA", "fileB"}

(* the I/O event lists tried for one process: one long operation; two at   *)
(* the same tick on one file, the first of duration 0; two at the same tick *)
(* on one file followed by a third one tick later; two at the same tick on  *)
(* one file, the first as long as the whole CPU demand                      *)
IoPatterns ==
    { <<IOOperation(1, "fileA", "r", MaxDur)>>,
      <<IOOperation(1, "fileA", "r", 0), IOOperation(1, "fileA", "w", 1)>>,
      <<IOOperation(1, "fileA", "r", 1), IOOperation(1, "fileA", "w", 1),
        IOOperation(2, "fileA", "r", 1)>>,
      <<IOOperation(1, "fileA", "r", MaxCpu), IOOperation(1, "fileA", "w", 0)>> }

SchedConfigs ==
    {RoundRobinScheduler(q) : q \in 1..MaxQuantum}
        \cup {SJFScheduler} \cup {PriorityScheduler(h) : h \in BOOLEAN}

(* priority is read by PriorityScheduler only; elsewhere the default 0 *)
Priorities(s) == IF s.kind = "PRIO" THEN 1..MaxPriority ELSE {0}

ProcDef(arrival, total_cpu, priority, pages, io_ops) ==
    [arrival |-> arrival, total_cpu |-> total_cpu, priority |-> priority,
     pages |-> pages, io_ops |-> io_ops]

(* processes without I/O: every arrival, an empty or a full CPU demand, *)
(* every priority and page count                                        *)
CpuBound(s) ==
    {ProcDef(a, c, pr, g, <<>>) :
        a \in {0, 1, MaxArrival}, c \in {0, MaxCpu}, pr \in Priorities(s), g \in 1..MaxPages}

(* processes with I/O: present from tick 0, one page, the lowest priority *)
IoBound(s) ==
    {ProcDef(0, MaxCpu, IF s.kind = "PRIO" THEN 1 ELSE 0, 1, io) : io \in IoPatterns}

ProcDefs(s) == CpuBound(s) \cup IoBound(s)

WorkloadsOf(s, n) == [1..n -> ProcDefs(s)]

Workloads(s, most) == UNION {WorkloadsOf(s, n) : n \in 1..most}

MakeProcs(w) ==
    [pid \in DOMAIN w |->
        Process(pid, w[pid].arrival, w[pid].total_cpu, w[pid].priority,
                w[pid].pages, w[pid].io_ops)]

(* Simulator.__init__ followed by add_process for pids 1..n, then run() *)
SimulatorInit(s, q, m, P, budget, r) ==
    /\ rng = r
    /\ scheduler = s
    /\ quantum = q
    /\ mem = m
    /\ fs = FileSimulator
    /\ procs = P
    /\ ready_list = [i \in DOMAIN P |-> i]
    /\ time = 0
    /\ pending = <<>>
    /\ running_proc = None
    /\ rr_quantum_left = q
    /\ finished = <<>>
    /\ metrics = [cpu_busy_ticks |-> 0, total_ticks |-> 0]
    /\ max_ticks = budget
    /\ pc = "run"
    /\ exc = "none"
    /\ last_op = OpRecord("init", None, <<>>, <<>>)
    /\ load_order = <<>>
    /\ slice = NoSlice

InitWith(most) ==
    \E s \in SchedConfigs, n \in 1..MaxFrames, r \in {"FIFO", "LRU"} :
      \E w \in Workloads(s, most) :
      \E budget \in {MinTicks, MaxTicks} :
        SimulatorInit(s, IF s.kind = "RR" THEN s.quantum ELSE DefaultQuantum,
                      MemoryManager(n, r), MakeProcs(w), budget, "any")

(* scenario A: one process, arrival 0, total_cpu 5, one page, no I/O, *)
(* Round-Robin with quantum 2, run() with its default max_ticks       *)
ScenarioA == <<Process(1, 0, 5, 0, 1, <<>>)>>

InitScenarioA ==
    \E n \in 1..MaxFrames, r \in {"FIFO", "LRU"} :
        SimulatorInit(RoundRobinScheduler(2), 2, MemoryManager(n, r), ScenarioA,
                      DefaultMaxTicks, "any")

Init == InitWith(MaxProcs)

InitRun == Init \/ InitScenarioA

(* the runs of a single process *)
InitSolo == InitWith(1)

Spec == InitRun /\ [][Next]_vars

(* run() is sequential code: while it has a next step, it takes it *)
FairSpec == InitSolo /\ [][Next]_vars /\ WF_vars(Next)

-----------------------------------------------------------------------------
(* Workloads in which no process has two I/O events with the same time: *)
(* up to two events per process, at any ticks of 1..MaxIoTime, on one   *)
(* file shared by all processes, of duration 0 or MaxDur                *)

DistinctIoLists ==
    {<<>>}
    \cup {<<IOOperation(t, "fileA", "r", d)>> : t \in 1..MaxIoTime, d \in {0, MaxDur}}
    \cup {<<IOOperation(tt[1], "fileA", "r", dd[1]), IOOperation(tt[2], "fileA", "w", dd[2])>> :
             tt \in {x \in (1..MaxIoTime) \X (1..MaxIoTime) : x[1] < x[2]},
             dd \in {0, MaxDur} \X {0, MaxDur}}

DistinctProcDefs ==
    {ProcDef(a, MaxCpu + MaxDur, 1, 1, io) : a \in {0, 1}, io \in DistinctIoLists}

InitDistinct ==
    \E s \in SchedConfigs, n \in 1..MaxFrames :
      \E w \in [1..MaxProcs -> DistinctProcDefs] :
        SimulatorInit(s, IF s.kind = "RR" THEN s.quantum ELSE DefaultQuantum,
                      MemoryManager(n, "FIFO"), MakeProcs(w), MaxTicks, "any")

SpecDistinct == InitDistinct /\ [][Next]_vars

-----------------------------------------------------------------------------
(* run_demo: sample_workload under Round-Robin quantum 2, 3 frames, LRU *)

SampleWorkload ==
    <<Process(1, 0, 10, 2, 3, <<IOOperation(3, "fileA", "r", 2)>>),
      Process(2, 1, 6, 5, 2, <<IOOperation(2, "fileA", "w", 2)>>),
      Process(3, 2, 8, 1, 4, <<>>),
      Process(4, 3, 4, 3, 1, <<IOOperation(4, "fileB", "r", 1)>>)>>

InitDemo ==
    \E r \in PageSources :
        SimulatorInit(RoundRobinScheduler(DemoQuantum), DemoQuantum,
                      MemoryManager(DemoFrames, "LRU"), SampleWorkload,
                      DemoMaxTicks, r)

SpecDemo == InitDemo /\ [][Next]_vars

-----------------------------------------------------------------------------
(* The components driven through their own interface: any caller, any      *)
(* argument values, in any order                                           *)

ApiPids == {1, 2}
PolicyNames == {"FIFO", "LRU", "lru", "clock"}
Ops == {"r", "w"}

ApiInit(m, f) ==
    /\ mem = m
    /\ fs = f
    /\ scheduler = RoundRobinScheduler(DefaultQuantum)
    /\ quantum = DefaultQuantum
    /\ procs = <<>>
    /\ ready_list = <<>>
    /\ time = 0
    /\ pending = <<>>
    /\ running_proc = None
    /\ rr_quantum_left = DefaultQuantum
    /\ finished = <<>>
    /\ metrics = [cpu_busy_ticks |-> 0, total_ticks |-> 0]
    /\ max_ticks = 0
    /\ pc = "api"
    /\ exc = "none"
    /\ rng = "any"
    /\ last_op = OpRecord("init", None, <<>>, <<>>)
    /\ load_order = <<>>
    /\ slice = NoSlice

RECURSIVE TotalFaults(_)
TotalFaults(page_faults) ==
    IF page_faults = <<>> THEN 0
    ELSE Head(page_faults)[2] + TotalFaults(Tail(page_faults))

(* mem.access_page(pid, page, tick) *)
AccessPageCall ==
    /\ pc = "api"
    /\ exc = "none"
    /\ \E pid \in ApiPids, page \in 0..(MaxPages - 1), tick \in 0..MaxMemTick :
         LET r == AccessPage(mem, pid, page, tick)
         IN /\ TotalFaults(r.mem.page_faults) <= MaxApiFaults
            /\ mem' = r.mem
            /\ exc' = r.exc
            /\ last_op' = OpRecord("access_page", pid, <<pid, page, tick>>, r.present)
            /\ load_order' = LoadOrderAfter(load_order, r.mem, <<pid, page>>)
    /\ UNCHANGED <<fs, scheduler, procs, ready_list, time, pending, running_proc,
                   rr_quantum_left, finished, metrics, max_ticks, quantum, pc, rng,
                   slice>>

InitMem ==
    \E n \in 0..MaxFrames, r \in PolicyNames : ApiInit(MemoryManager(n, r), FileSimulator)

NextMem == AccessPageCall

SpecMem == InitMem /\ [][NextMem]_vars

(* fs.request(pid, filename, op, tick, duration) *)
RequestCall ==
    /\ pc = "api"
    /\ Len(fs.log) < MaxLog
    /\ \E pid \in ApiPids, filename \in Files, op \in Ops,
          tick \in 0..MaxFsTick, duration \in 0..MaxFsDur :
         LET r == Request(fs, pid, filename, op, tick, duration)
         IN /\ fs' = r.fs
            /\ last_op' = OpRecord("request", pid,
                                   <<pid, filename, op, tick, duration>>,
                                   <<r.granted, r.release_tick>>)
    /\ UNCHANGED <<mem, scheduler, procs, ready_list, time, pending, running_proc,
                   rr_quantum_left, finished, metrics, max_ticks, quantum, pc,
                   exc, rng, load_order, slice>>

(* fs.release_expired(tick) *)
ReleaseExpiredCall ==
    /\ pc = "api"
    /\ \E tick \in 0..(MaxFsTick + MaxFsDur) :
         /\ fs' = ReleaseExpired(fs, tick)
         /\ last_op' = OpRecord("release_expired", None, <<tick>>, <<>>)
    /\ UNCHANGED <<mem, scheduler, procs, ready_list, time, pending, running_proc,
                   rr_quantum_left, finished, metrics, max_ticks, quantum, pc,
                   exc, rng, load_order, slice>>

InitFS == ApiInit(MemoryManager(1, "FIFO"), FileSimulator)

NextFS == RequestCall \/ ReleaseExpiredCall

SpecFS == InitFS /\ [][NextFS]_vars

-----------------------------------------------------------------------------
(* Properties *)

Locked(f, fname) == DictHas(f.locks, fname)
LockOf(f, fname) == DictGet(f.locks, fname)
QueueOf(f, fname) == DictGetOr(f.waiting, fname, <<>>)
InSeq(x, q) == \E i \in 1..Len(q) : q[i] = x
Pids == DOMAIN procs

(* C1: with num_frames >= 1, after any sequence of access_page calls the   *)
(* number of resident (pid, page) entries, counted in frame_map and in the *)
(* frames list, is at most num_frames.                                     *)
C1_ResidentWithinFrames ==
    mem.num_frames >= 1 =>
        /\ Len(mem.frame_map) <= mem.num_frames
        /\ Len(mem.frames) <= mem.num_frames

(* all frames are occupied and the last call faulted and replaced a page *)
C1_Witness ==
    /\ mem.num_frames >= 1
    /\ last_op.op = "access_page"
    /\ last_op.ret = FALSE
    /\ Len(mem.frames) = mem.num_frames
    /\ TotalFaults(mem.page_faults) > mem.num_frames

(* C2: Simulator.run always terminates: the tick loop eventually exits and *)
(* run() returns.                                                          *)
C2_RunTerminates == <>(pc = "done")

(* The state C2 fails in: nothing is pending or running, one process p is *)
(* ready with all its pages resident, and the first I/O event of p at the *)
(* current tick is for a file locked beyond the current tick.  The next   *)
(* iteration dispatches p, refuses the request and puts p back without    *)
(* moving the clock, which gives a state of the same kind: the loop       *)
(* condition stays true for ever.                                         *)
ReadyPids ==
    IF scheduler.kind = "RR"
    THEN scheduler.queue
    ELSE [i \in 1..Len(scheduler.heap) |-> scheduler.heap[i][3]]

Spinning ==
    /\ pc = "loop"
    /\ time < max_ticks
    /\ pending = <<>>
    /\ running_proc = None
    /\ Len(ReadyPids) = 1
    /\ LET p == procs[ReadyPids[1]]
       IN /\ \A g \in 0..(p.pages - 1) : DictHas(mem.frame_map, <<p.pid, g>>)
          /\ IoNow(p, time) # <<>>
          /\ Locked(fs, Head(IoNow(p, time)).filename)
          /\ LockOf(fs, Head(IoNow(p, time)).filename)[2] > time

C2_SpinningIsClosed == [][Spinning => (Spinning' /\ time' = time /\ pc' = "loop")]_vars

C2_SpinningReached == Spinning

(* C3: the simulated clock never exceeds max_ticks at any point of run(). *)
C3_ClockWithinMaxTicks == pc \in {"loop", "done"} => time <= max_ticks

(* C4: request on an unlocked file grants it and records the holder with   *)
(* release tick tick + d; request on a locked file is refused, appends the *)
(* request to the file's wait queue and adds exactly 1 to conflicts;       *)
(* release_expired(t) releases every lock whose release tick is <= t and   *)
(* hands the file to the head of its wait queue until t + that request's   *)
(* duration, removing exactly that request.                                *)
C4_RequestStep ==
    last_op'.op = "request" =>
        LET pid == last_op'.arg[1]
            f == last_op'.arg[2]
            op == last_op'.arg[3]
            tick == last_op'.arg[4]
            d == last_op'.arg[5]
        IN IF ~Locked(fs, f)
           THEN /\ last_op'.ret = <<TRUE, tick + d>>
                /\ Locked(fs', f) /\ LockOf(fs', f) = <<pid, tick + d>>
                /\ QueueOf(fs', f) = QueueOf(fs, f)
                /\ fs'.conflicts = fs.conflicts
           ELSE /\ last_op'.ret[1] = FALSE
                /\ LockOf(fs', f) = LockOf(fs, f)
                /\ QueueOf(fs', f) = Append(QueueOf(fs, f), <<pid, op, d>>)
                /\ fs'.conflicts = fs.conflicts + 1

C4_ReleaseStep ==
    last_op'.op = "release_expired" =>
        LET t == last_op'.arg[1]
        IN \A f \in Files :
             IF Locked(fs, f) /\ LockOf(fs, f)[2] <= t
             THEN IF QueueOf(fs, f) # <<>>
                  THEN LET head == Head(QueueOf(fs, f))
                       IN /\ Locked(fs', f)
                          /\ LockOf(fs', f) = <<head[1], t + head[3]>>
                          /\ QueueOf(fs', f) = Tail(QueueOf(fs, f))
                  ELSE ~Locked(fs', f) /\ QueueOf(fs', f) = <<>>
             ELSE /\ Locked(fs', f) = Locked(fs, f)
                  /\ Locked(fs, f) => LockOf(fs', f) = LockOf(fs, f)
                  /\ QueueOf(fs', f) = QueueOf(fs, f)

C4_LockProtocol == [][C4_RequestStep /\ C4_ReleaseStep]_vars

(* a refused request was counted, queued behind another one, and a later *)
(* release_expired handed the file to the head of the queue              *)
C4_Witness ==
    /\ last_op.op = "release_expired"
    /\ fs.conflicts >= 2
    /\ fs.log # <<>>
    /\ fs.log[Len(fs.log)][5] = "granted_from_queue"
    /\ \E f \in Files : QueueOf(fs, f) # <<>>

(* C5: every process in the finished list has finish_time >= arrival and, *)
(* after compute_metrics, waiting_time >= 0.                              *)
C5_FinishedTimes ==
    \A pid \in Pids :
        InSeq(pid, finished) =>
            /\ procs[pid].finish_time # NoTime
            /\ procs[pid].finish_time >= procs[pid].arrival
            /\ pc = "done" => procs[pid].waiting_time >= 0

(* run() returned with a finished process that arrived late and waited *)
C5_Witness ==
    /\ pc = "done"
    /\ \E pid \in Pids :
          /\ InSeq(pid, finished)
          /\ procs[pid].arrival > 0
          /\ procs[pid].waiting_time > 0

(* C6: cpu_busy_ticks <= total_ticks in every state of run(). *)
C6_BusyWithinTotal == metrics.cpu_busy_ticks <= metrics.total_ticks

(* fault or idle ticks and CPU ticks have both been counted *)
C6_Witness ==
    /\ metrics.cpu_busy_ticks > 0
    /\ metrics.total_ticks > metrics.cpu_busy_ticks
    /\ last_op.op = "cpu"

IsScenarioA ==
    /\ Pids = {1}
    /\ procs[1].arrival = 0 /\ procs[1].total_cpu = 5 /\ procs[1].pages = 1
    /\ procs[1].io_ops = <<>>
    /\ scheduler.kind = "RR" /\ quantum = 2
    /\ mem.num_frames >= 1

(* C7: scenario A ends with the process finished, finish_time = 5, *)
(* turnaround = 5 and waiting_time = 0.                            *)
C7_ScenarioA_AsClaimed ==
    (IsScenarioA /\ pc = "done") =>
        /\ finished = <<1>>
        /\ procs[1].finish_time = 5
        /\ Turnaround(procs[1]) = 5
        /\ procs[1].waiting_time = 0

(* C7, amended: the first access to the only page is a page fault that    *)
(* costs one tick, so scenario A ends with finish_time = 6, turnaround = 6 *)
(* and waiting_time = 1.                                                   *)
C7_ScenarioA ==
    (IsScenarioA /\ pc = "done") =>
        /\ finished = <<1>>
        /\ procs[1].start_time = 0
        /\ procs[1].finish_time = 6
        /\ Turnaround(procs[1]) = 6
        /\ procs[1].waiting_time = 1
        /\ last_op.ret.finished_count = 1
        /\ last_op.ret.total_wait = 1
        /\ last_op.ret.total_turnaround = 6

C7_Witness == IsScenarioA /\ pc = "done" /\ metrics.cpu_busy_ticks = 5

(* C8: the sample workload under Round-Robin quantum 2, 3 frames, LRU and *)
(* max_ticks = 200 ends with finished_count == 4, whatever pages the      *)
(* processes access.                                                      *)
C8_DemoAllFinish == pc = "done" => last_op.ret.finished_count = 4

(* C8, amended: the run ends with finished_count == 4 unless the clock     *)
(* reached max_ticks; page choices that keep faulting use up the 200 ticks *)
(* and leave processes unfinished.                                         *)
C8_DemoAllFinishUnlessBudget ==
    pc = "done" =>
        /\ last_op.ret.finished_count <= 4
        /\ last_op.ret.finished_count = 4 \/ last_op.ret.time_elapsed >= max_ticks

C8_Witness ==
    /\ pc = "done"
    /\ last_op.ret.finished_count = 4
    /\ last_op.ret.time_elapsed < max_ticks
    /\ TotalFaults(mem.page_faults) > 10

(* C9: a process whose total_cpu is <= 0 finishes on the tick of its first *)
(* dispatch and no CPU tick is run for it.                                 *)
C9_NoCpuForEmptyDemand ==
    /\ \A pid \in Pids :
          (procs[pid].total_cpu <= 0 /\ procs[pid].finish_time # NoTime) =>
              procs[pid].finish_time = procs[pid].start_time
    /\ last_op.op = "cpu" => procs[last_op.pid].total_cpu > 0

(* C10: a manager with num_frames = 0 is rejected at construction, so no *)
(* access_page call on it ends in a runtime failure.                     *)
C10_ZeroFramesNoRuntimeFailure ==
    mem.num_frames = 0 => exc \notin {"IndexError", "ValueError"}

(* C11: a request counted as a conflict is a request for a file held by a *)
(* process other than the requester.  The refused request of an iteration *)
(* of run() is the last entry of the log, (tick, pid, file, op, "queued"), *)
(* and a refusal leaves the lock table as it was.                          *)
C11_ConflictsAgainstOthers ==
    (last_op.op = "denied" /\ fs.log # <<>>) =>
        LET e == fs.log[Len(fs.log)]
        IN /\ e[5] = "queued"
           /\ Locked(fs, e[3])
           /\ LockOf(fs, e[3])[1] # e[2]

(* C12: under Round-Robin with quantum q >= 1 the clock advances by at most *)
(* q between the dispatch of a process and the moment it is requeued,       *)
(* finishes or blocks, page-fault ticks and I/O durations included.         *)
C12_QuantumBoundsClock ==
    (scheduler.kind = "RR" /\ quantum >= 1 /\ slice.pid # None) =>
        slice.until - slice.since <= quantum

(* C12, amended: the quantum counts CPU ticks.  A process executes at most *)
(* q CPU ticks between its dispatch and the moment it leaves the active    *)
(* slot, and a process still active at a loop boundary has executed fewer  *)
(* than q; fault ticks and I/O durations are not counted.                  *)
C12_QuantumBoundsCpuTicks ==
    (scheduler.kind = "RR" /\ quantum >= 1 /\ slice.pid # None) =>
        /\ slice.cpu <= quantum
        /\ running_proc # None => slice.cpu < quantum

(* a process used its whole quantum of 2 or more and was requeued, and the *)
(* clock advanced by more than the quantum meanwhile                       *)
C12_Witness ==
    /\ scheduler.kind = "RR" /\ quantum >= 2
    /\ slice.pid # None
    /\ slice.cpu = quantum
    /\ slice.until - slice.since > quantum
    /\ running_proc = None
    /\ InSeq(slice.pid, scheduler.queue)

(* a step in which access_page faulted with every frame occupied *)
FaultWhenFull ==
    /\ last_op'.op = "access_page"
    /\ last_op'.ret = FALSE
    /\ exc' = "none"
    /\ mem.num_frames >= 1
    /\ Len(mem.frames) = mem.num_frames
    /\ mem' # mem

(* the keys resident before the step and no longer resident after it *)
Evicted == {k \in {load_order[i] : i \in 1..Len(load_order)} : ~DictHas(mem'.frame_map, k)}

PosIn(q, x) == CHOOSE i \in 1..Len(q) : q[i] = x

(* C13: under LRU a fault with all frames occupied evicts the resident key *)
(* with the smallest last-access timestamp and, among the keys with that   *)
(* timestamp, the one loaded earliest.                                     *)
C13_LruVictim ==
    [][(FaultWhenFull /\ mem.replacement = "LRU") =>
          \E v \in Evicted :
             /\ Evicted = {v}
             /\ \A i \in 1..Len(load_order) :
                   LET k == load_order[i]
                       tv == DictGet(mem.last_used, v)
                       tk == DictGet(mem.last_used, k)
                   IN tv < tk \/ (tv = tk /\ PosIn(load_order, v) <= i)]_vars

(* under LRU with two frames the last call replaced the page loaded second *)
(* and kept the page loaded first                                          *)
C13_Witness ==
    /\ mem.replacement = "LRU"
    /\ mem.num_frames = 2
    /\ last_op.op = "access_page" /\ last_op.ret = FALSE
    /\ TotalFaults(mem.page_faults) > 2
    /\ mem.frames[2] = <<1, last_op.arg[1], last_op.arg[2]>>
    /\ Len(load_order) = 2

(* C14: under FIFO, and under a policy name that is neither FIFO nor LRU, *)
(* a fault with all frames occupied evicts the resident key that was      *)
(* loaded earliest, whatever hits it received since.                      *)
C14_FifoVictim ==
    [][(FaultWhenFull /\ mem.replacement # "LRU") =>
          Evicted = {Head(load_order)}]_vars

(* under the unknown policy name with two frames the last call replaced the *)
(* page loaded first                                                        *)
C14_Witness ==
    /\ mem.replacement = "CLOCK"
    /\ mem.num_frames = 2
    /\ last_op.op = "access_page" /\ last_op.ret = FALSE
    /\ TotalFaults(mem.page_faults) > 2
    /\ mem.frames[1] = <<0, last_op.arg[1], last_op.arg[2]>>
    /\ Len(load_order) = 2

SeqSet(q) == {q[i] : i \in 1..Len(q)}

KeySeq(d) == [i \in 1..Len(d) |-> d[i][1]]

(* the bookkeeping of the manager agrees with itself and with the order in *)
(* which the resident keys were loaded                                     *)
Consistent(m, order) ==
    /\ DictKeys(m.frame_map) = SeqSet(m.fifo_queue)
    /\ DictKeys(m.frame_map) = DictKeys(m.last_used)
    /\ Len(m.frame_map) = Cardinality(DictKeys(m.frame_map))
    /\ Len(m.last_used) = Cardinality(DictKeys(m.last_used))
    /\ Len(m.fifo_queue) = Cardinality(SeqSet(m.fifo_queue))
    /\ \A key \in DictKeys(m.frame_map) :
          LET slots == {i \in 1..Len(m.frames) : <<m.frames[i][2], m.frames[i][3]>> = key}
          IN /\ Cardinality(slots) = 1
             /\ \A i \in slots : m.frames[i][1] = DictGet(m.frame_map, key)
    /\ \A k1, k2 \in DictKeys(m.frame_map) :
          DictGet(m.frame_map, k1) = DictGet(m.frame_map, k2) => k1 = k2
    /\ m.fifo_queue = order

(* a hit writes the timestamp of the accessed key and leaves the frames, *)
(* the mapping, the queue, the fault counters and the other timestamps   *)
(* as they were.  (The manager also stores the tick of every call in its *)
(* attribute `time`, which no method reads and stats() does not report;  *)
(* it is not part of the bookkeeping compared here.)                     *)
HitStep ==
    (last_op'.op = "access_page" /\ last_op'.ret = TRUE) =>
        LET key == <<last_op'.arg[1], last_op'.arg[2]>>
            tick == last_op'.arg[3]
        IN /\ DictHas(mem.frame_map, key)
           /\ mem'.frames = mem.frames
           /\ mem'.frame_map = mem.frame_map
           /\ mem'.fifo_queue = mem.fifo_queue
           /\ mem'.page_faults = mem.page_faults
           /\ mem'.num_frames = mem.num_frames
           /\ mem'.replacement = mem.replacement
           /\ KeySeq(mem'.last_used) = KeySeq(mem.last_used)
           /\ DictGet(mem'.last_used, key) = tick
           /\ \A k \in DictKeys(mem.last_used) \ {key} :
                 DictGet(mem'.last_used, k) = DictGet(mem.last_used, k)

C16_DenialFrame ==
    [][last_op'.op = "denied" =>
          LET pid == last_op'.pid
          IN /\ time' = time
             /\ procs'[pid].remaining = procs[pid].remaining
             /\ procs'[pid].waiting_time = procs[pid].waiting_time + 1
             /\ running_proc' = None
             /\ Cardinality({i \in 1..Len(ReadyPids') : ReadyPids'[i] = pid}) = 1]_vars

(* the key the claim orders the ready processes by, from the process as it *)
(* is now                                                                  *)
CurrentKey(p) ==
    IF scheduler.kind = "SJF" THEN p.remaining
    ELSE IF scheduler.higher_value THEN 0 - p.priority
    ELSE p.priority

(* the processes an iteration starting in this state can dispatch: those in *)
(* the heap and the pending ones whose arrival has come                     *)
ReadyAtDispatch ==
    SeqSet(ReadyPids) \cup
        {pending[i] : i \in {j \in 1..Len(pending) :
                                \A l \in 1..j : procs[pending[l]].arrival <= time}}

(* C17: with a heap-based scheduler every dispatch takes the ready process *)
(* that is minimal under (key, arrival, pid), key being the remaining CPU  *)
(* for SJF, the priority for Priority and the negated priority for         *)
(* Priority with higher_value_higher_priority, and removes it from the     *)
(* ready structure.                                                        *)
C17_HeapDispatchesMinimum ==
    [][(/\ pc = "loop"
        /\ scheduler.kind # "RR"
        /\ running_proc = None
        /\ last_op'.op \in {"fault", "denied", "cpu", "raise"}) =>
          LET pid == last_op'.pid
              entry(r) == <<CurrentKey(procs[r]), procs[r].arrival, r>>
          IN /\ pid \in ReadyAtDispatch
             /\ \A r \in ReadyAtDispatch : ~TupleLess(entry(r), entry(pid))
             /\ last_op'.op \in {"fault", "cpu"} => pid \notin SeqSet(ReadyPids')]_vars

(* under Priority with higher values first, process 2 was dispatched ahead *)
(* of process 1, which has the lower priority value and is still waiting   *)
C17_Witness ==
    /\ scheduler.kind = "PRIO" /\ scheduler.higher_value
    /\ last_op.op \in {"fault", "cpu"} /\ last_op.pid = 2
    /\ 1 \in SeqSet(ReadyPids)
    /\ procs[1].start_time = NoTime
    /\ procs[1].arrival <= procs[2].arrival
    /\ procs[1].priority < procs[2].priority

(* C18: start_time is written once, at the first dispatch, with a value   *)
(* >= arrival; finish_time is written once, in the iteration in which     *)
(* remaining first becomes <= 0, with the clock at the end of that         *)
(* iteration; remaining never increases.                                   *)
C18_TimesWrittenOnce ==
    [][\A pid \in Pids :
          /\ procs'[pid].remaining <= procs[pid].remaining
          /\ procs[pid].start_time # NoTime =>
                procs'[pid].start_time = procs[pid].start_time
          /\ (procs[pid].start_time = NoTime /\ procs'[pid].start_time # NoTime) =>
                /\ last_op'.pid = pid
                /\ procs'[pid].start_time = time
                /\ procs'[pid].start_time >= procs[pid].arrival
          /\ procs[pid].finish_time # NoTime =>
                procs'[pid].finish_time = procs[pid].finish_time
          /\ (procs[pid].finish_time = NoTime /\ procs'[pid].finish_time # NoTime) =>
                /\ procs'[pid].remaining <= 0
                /\ procs'[pid].finish_time = time'
          /\ (procs[pid].remaining > 0 /\ procs'[pid].remaining <= 0) =>
                procs'[pid].finish_time = time']_vars

Occurrences(q, x) == Cardinality({i \in 1..Len(q) : q[i] = x})

(* the number of places holding pid: the pending queue, the ready *)
(* structure of the scheduler, the active slot, the finished list *)
Places(pid) ==
    Occurrences(pending, pid) + Occurrences(ReadyPids, pid)
        + (IF running_proc = pid THEN 1 ELSE 0) + Occurrences(finished, pid)

(* C19: at every loop boundary of run() each process is in exactly one of *)
(* the pending queue, the ready structure, the active slot and the        *)
(* finished list; a finished process stays finished and is not dispatched *)
(* again; at most one process is active (running_proc holds one pid or    *)
(* None).                                                                  *)
C19_OnePlacePerProcess ==
    /\ [](pc \in {"loop", "done"} =>
             /\ \A pid \in Pids : Places(pid) = 1
             /\ running_proc \in Pids \cup {None})
    /\ [][/\ Len(finished') >= Len(finished)
           /\ SubSeq(finished', 1, Len(finished)) = finished
           /\ last_op'.op \in {"fault", "denied", "cpu", "raise"} =>
                 ~InSeq(last_op'.pid, finished)]_vars

(* one process has finished, the other was refused a lock, went back to the *)
(* scheduler and is the active process again                                *)
C19_Witness ==
    /\ pc = "loop"
    /\ Len(finished) = 1
    /\ running_proc # None
    /\ procs[running_proc].waiting_time >= 1

(* no process has two I/O events with the same time value, and no event *)
(* has a negative duration                                               *)
DistinctIoTimes ==
    \A pid \in Pids :
        LET ops == procs[pid].io_ops
        IN /\ \A i, j \in 1..Len(ops) : i # j => ops[i].time # ops[j].time
           /\ \A i \in 1..Len(ops) : ops[i].duration >= 0

(* C20: when no process has two I/O events with the same time value, no   *)
(* lock request of a run is refused: conflicts stays 0, the wait queues    *)
(* stay empty, the log has no "queued" or "granted_from_queue" entry, and  *)
(* at every loop boundary every lock has expired.                          *)
C20_NoDenialWithDistinctTimes ==
    (DistinctIoTimes /\ pc \in {"loop", "done"}) =>
        /\ fs.conflicts = 0
        /\ last_op.op # "denied"
        /\ \A i \in 1..Len(fs.waiting) : fs.waiting[i][2] = <<>>
        /\ \A i \in 1..Len(fs.log) : fs.log[i][5] = "granted"
        /\ \A i \in 1..Len(fs.locks) : fs.locks[i][2][2] <= time

(* both processes were granted the same file during one run, and the last *)
(* lock has been released                                                 *)
C20_Witness ==
    /\ DistinctIoTimes
    /\ pc = "done"
    /\ \E i, j \in 1..Len(fs.log) :
          /\ fs.log[i][2] # fs.log[j][2]
          /\ fs.log[i][3] = fs.log[j][3]
    /\ fs.locks = <<>>

====
